---- MODULE Spec2Model ----
(***************************************************************************)
(* Model of src/index.ts of typed-rest-api (typescript-routes-to-openapi): *)
(* one run of typescriptRoutesToOpenApi(config?) against a small file      *)
(* system.  The run is a straight-line sequence of steps; every step that  *)
(* can throw ends the run with the thrown error as its outcome.            *)
(*                                                                         *)
(* JavaScript values are encoded as strings: the booleans are "true" and   *)
(* "false", the value undefined is UNDEFINED, and a key that the object    *)
(* does not own is ABSENT.                                                 *)
(***************************************************************************)
EXTENDS Integers, Sequences, FiniteSets, TLC

\* Largest number of route declarations in the analysed program.
MaxRoutes == 3

VARIABLES
    args,           \* the argument list of the call: <<>> or <<config>>
    config,         \* the local variable `config`
    fs,             \* file system: location -> content
    fs0,            \* the file system as it was when the run started
    dirs,           \* directories that exist besides the working directory
    dirs0,          \* the directories that existed when the run started
    pc,             \* position in typescriptRoutesToOpenApi
    outcome,        \* "running", "returned" or the name of the thrown error
    log,            \* calls and writes of this run, in order
    routes,         \* the local variable `routes`
    reported,       \* declaration sites reported by getRoutes as unresolvable
    conflictStage   \* the stage that detects a duplicate (method, path)

vars == <<args, config, fs, fs0, dirs, dirs0, pc, outcome, log, routes, reported,
          conflictStage>>

----------------------------------------------------------------------------
\* JavaScript values and objects

ABSENT == "<absent>"
UNDEFINED == "undefined"

OptionKeys == {"openapi", "tsConfigPath", "schemaOutputDir",
               "schemaOutputFileName", "routesOutputDir",
               "routesOutputFileName", "generateOpenApiSchema",
               "checkProgramForErrors"}

Cwd == "/cwd"
GeneratedDir == "/cwd/generated"

\* const defaultConfig
defaultConfig ==
    [k \in OptionKeys |->
        CASE k = "tsConfigPath" -> "/cwd/tsconfig.json"
          [] k = "generateOpenApiSchema" -> "true"
          [] k = "checkProgramForErrors" -> "true"
          [] k = "schemaOutputDir" -> Cwd
          [] k = "schemaOutputFileName" -> "openapi.json"
          [] k = "routesOutputDir" -> GeneratedDir
          [] k = "routesOutputFileName" -> "routes.ts"
          [] OTHER -> ABSENT]

\* config.k : reading a key the object does not own yields undefined
Get(c, k) == IF c[k] = ABSENT THEN UNDEFINED ELSE c[k]

\* JavaScript truthiness of the encoded values
Truthy(v) == v \notin {UNDEFINED, ABSENT, "false", ""}

\* a ?? b
Nullish(a, b) == IF a = UNDEFINED THEN b ELSE a

\* a || b
OrElse(a, b) == IF Truthy(a) THEN a ELSE b

\* { ...a, ...b } : every own key of b, undefined-valued ones included,
\* replaces the key of a
Spread(a, b) == [k \in OptionKeys |-> IF b[k] # ABSENT THEN b[k] ELSE a[k]]

----------------------------------------------------------------------------
\* Paths and the file system

\* A path is <<directory, file name>>; the directory "." is the working
\* directory of a relative path.
\* path.join(dir, file): an empty first segment is dropped, which leaves
\* the relative path `file`
PathJoin(d, f) == IF d = "" THEN <<".", f>> ELSE <<d, f>>

\* path.dirname(p)
Dirname(p) == p[1]

\* the file a path names: fs calls resolve relative paths against cwd
Resolve(p) == IF p[1] = "." THEN <<Cwd, p[2]>> ELSE p

Locations == { <<Cwd, "openapi.json">>, <<Cwd, "routes.ts">>,
               <<GeneratedDir, "routes.ts">> }

NoFile == [kind |-> "none", body |-> <<>>]
OldFile == [kind |-> "old", body |-> <<>>]

\* the text written by overridePreviouslyGeneratedRoutesFile: a router
\* that registers nothing
Placeholder == [kind |-> "placeholder", body |-> <<>>]

\* existsSync(p) answering true for every path
ExistsAlways(p) == TRUE

\* existsSync(p) for a file path
ExistsFile(p) == fs[Resolve(p)] # NoFile

\* existsSync(d) for a directory
ExistsDir(d) == d \in {".", Cwd} \/ d \in dirs

\* writeFileSync(p, content)
WriteFile(p, content) == [fs EXCEPT ![Resolve(p)] = content]

\* mkdirSync(d, {recursive: true}) when d does not exist
Mkdir(d) == IF ExistsDir(d) THEN dirs ELSE dirs \cup {d}

----------------------------------------------------------------------------
\* The analysed program and the two generators (./find_routes,
\* ./generators/openapi, ./generators/routes)

RouteKeys == <<"GET /items/{id}", "GET /users/{id}">>
Unresolvable == "unresolvable type"
DeclKinds == {RouteKeys[i] : i \in DOMAIN RouteKeys} \cup {Unresolvable}

\* the programs: sequences of at most MaxRoutes route declarations
Programs == UNION {[1..n -> DeclKinds] : n \in 0..MaxRoutes}

Sites(decls, ok) ==
    {i \in DOMAIN decls : (decls[i] # Unresolvable) = ok}

RECURSIVE ExtractFrom(_, _)
ExtractFrom(decls, i) ==
    IF i > Len(decls) THEN <<>>
    ELSE (IF decls[i] = Unresolvable THEN <<>>
          ELSE <<[site |-> i, key |-> decls[i]]>>)
         \o ExtractFrom(decls, i + 1)

\* getRoutes: the routes whose types resolve, in declaration order
Extract(decls) == ExtractFrom(decls, 1)

\* two routes mapped to the same (method, path)
HasConflict(rs) ==
    \E i, j \in DOMAIN rs : i # j /\ rs[i].key = rs[j].key

Stages == {"extract", "assemble", "generate"}

KeyIs(k, r) == r.key = k

RECURSIVE SortFrom(_, _)
SortFrom(rs, n) ==
    IF n > Len(RouteKeys) THEN <<>>
    ELSE LET Sel(r) == KeyIs(RouteKeys[n], r)
         IN SelectSeq(rs, Sel) \o SortFrom(rs, n + 1)

\* stable sort of the routes by method then path
SortRoutes(rs) == SortFrom(rs, 1)

\* generateOpenApiDocument(routes, config.openapi)
generateOpenApiDocument(rs) == [kind |-> "openapi", body |-> SortRoutes(rs)]

\* generateRoutes(routes, routesOutputDir)
generateRoutes(rs) == [kind |-> "routes", body |-> rs]

----------------------------------------------------------------------------
\* Configuration: the caller's object, the config file, the JSON schema

BooleanKeys == {"generateOpenApiSchema", "checkProgramForErrors"}

\* values the caller may give each option
OptionValues(k) ==
    CASE k = "openapi" -> {ABSENT, "metadata"}
      [] k = "tsConfigPath" -> {ABSENT, UNDEFINED}
      [] k = "schemaOutputDir" -> {ABSENT, UNDEFINED}
      [] k = "schemaOutputFileName" -> {ABSENT, "routes.ts"}
      [] k = "routesOutputDir" -> {ABSENT, UNDEFINED, "", Cwd}
      [] k = "routesOutputFileName" -> {ABSENT, UNDEFINED}
      [] k = "generateOpenApiSchema" -> {ABSENT, UNDEFINED, "true", "false"}
      [] OTHER -> {ABSENT, UNDEFINED, "true", "false", "yes"}

\* a JavaScript object with the eight option keys
Object(o, t, sd, sf, rd, rf, g, c) ==
    [openapi |-> o, tsConfigPath |-> t, schemaOutputDir |-> sd,
     schemaOutputFileName |-> sf, routesOutputDir |-> rd,
     routesOutputFileName |-> rf, generateOpenApiSchema |-> g,
     checkProgramForErrors |-> c]

CallerConfigs ==
    {Object(o, t, sd, sf, rd, rf, g, c) :
        o \in OptionValues("openapi"), t \in OptionValues("tsConfigPath"),
        sd \in OptionValues("schemaOutputDir"),
        sf \in OptionValues("schemaOutputFileName"),
        rd \in OptionValues("routesOutputDir"),
        rf \in OptionValues("routesOutputFileName"),
        g \in OptionValues("generateOpenApiSchema"),
        c \in OptionValues("checkProgramForErrors")}

\* what JSON.parse can return for the config file: objects without
\* undefined-valued keys
JsonConfigs ==
    {Object("metadata", ABSENT, ABSENT, ABSENT, ABSENT, ABSENT, ABSENT, ABSENT),
     Object(ABSENT, ABSENT, ABSENT, ABSENT, ABSENT, ABSENT, ABSENT, ABSENT),
     Object("metadata", ABSENT, ABSENT, ABSENT, ABSENT, ABSENT, ABSENT, "false"),
     Object("metadata", ABSENT, ABSENT, ABSENT, "", ABSENT, "false", ABSENT)}

\* states of the default config file
ConfigFiles == {"missing", "directory", "not JSON", "JSON"}

\* the `config` parameter when no argument was passed
NoConfig == Object(ABSENT, ABSENT, ABSENT, ABSENT, ABSENT, ABSENT, ABSENT, ABSENT)

\* the JSON type of an encoded value
TypeOf(v) ==
    IF v \in {"true", "false"} THEN "boolean"
    ELSE IF v = "metadata" THEN "object" ELSE "string"

\* config_json_schema.json: the type each property must have
SchemaType(k) ==
    IF k \in BooleanKeys THEN "boolean"
    ELSE IF k = "openapi" THEN "object" ELSE "string"

\* ajv.validate(configJsonSchema, config): `openapi` is required, and a
\* property whose value is undefined is treated as missing
Validate(c) ==
    /\ Get(c, "openapi") # UNDEFINED
    /\ \A k \in OptionKeys :
          Get(c, k) = UNDEFINED \/ TypeOf(c[k]) = SchemaType(k)

----------------------------------------------------------------------------
\* The run

Init ==
    /\ args \in {<<>>} \cup {<<c>> : c \in CallerConfigs}
    /\ config = IF args = <<>> THEN NoConfig ELSE args[1]
    /\ fs \in [Locations -> {NoFile, OldFile}]
    /\ fs0 = fs
    /\ dirs \in SUBSET {GeneratedDir}
    /\ dirs0 = dirs
    /\ fs[<<GeneratedDir, "routes.ts">>] # NoFile => GeneratedDir \in dirs
    /\ pc = "load"
    /\ outcome = "running"
    /\ log = <<>>
    /\ routes = <<>>
    /\ reported = {}
    /\ conflictStage = "none"

\* throw new Error(...)
Throw(e) == pc' = "done" /\ outcome' = e

\* lines 67-69 and loadConfigFile
LoadConfig ==
    /\ pc = "load"
    /\ UNCHANGED <<args, fs, fs0, dirs, dirs0, log, routes, reported,
                   conflictStage>>
    /\ IF args # <<>>
       THEN pc' = "merge" /\ UNCHANGED <<config, outcome>>
       ELSE \E file \in ConfigFiles :
              CASE file = "missing" ->
                     Throw("Config file does not exist") /\ UNCHANGED config
                [] file = "directory" ->
                     Throw("Config needs to be a regular file")
                     /\ UNCHANGED config
                [] file = "not JSON" ->
                     Throw("SyntaxError") /\ UNCHANGED config
                [] OTHER ->
                     \E c \in JsonConfigs :
                        config' = c /\ pc' = "merge" /\ UNCHANGED outcome

\* lines 71-84 with the validation result ignored
MergeUnvalidated ==
    /\ pc = "merge"
    /\ config' = Spread(defaultConfig, config)
    /\ pc' = "override"
    /\ UNCHANGED <<args, fs, fs0, dirs, dirs0, outcome, log, routes, reported,
                   conflictStage>>

\* lines 71-84: apply the defaults, then validate against the schema
MergeValidate ==
    /\ pc = "merge"
    /\ config' = Spread(defaultConfig, config)
    /\ IF Validate(config')
       THEN pc' = "override" /\ UNCHANGED outcome
       ELSE Throw("Invalid config file")
    /\ UNCHANGED <<args, fs, fs0, dirs, dirs0, log, routes, reported,
                   conflictStage>>

\* path.join throws a TypeError on an argument that is not a string
IsString(v) == v # UNDEFINED

\* the path overridePreviouslyGeneratedRoutesFile checks and overwrites
OverridePath(c) ==
    PathJoin(Get(c, "routesOutputDir"), Get(c, "routesOutputFileName"))

\* the path _generateRoutes writes the generated source to
RoutesOutputDir(c) == OrElse(Get(c, "routesOutputDir"), GeneratedDir)
RoutesOutputPath(c) ==
    PathJoin(RoutesOutputDir(c), Get(c, "routesOutputFileName"))

\* the path _generateOpenApiDocument writes the document to
SchemaOutputPath(c) ==
    PathJoin(Get(c, "schemaOutputDir"), Get(c, "schemaOutputFileName"))

\* line 86 and overridePreviouslyGeneratedRoutesFile
Override ==
    /\ pc = "override"
    /\ UNCHANGED <<args, config, fs0, dirs, dirs0, routes, reported,
                   conflictStage>>
    /\ IF ~IsString(Get(config, "routesOutputDir"))
          \/ ~IsString(Get(config, "routesOutputFileName"))
       THEN /\ Throw("TypeError")
            /\ log' = Append(log, "overridePreviouslyGeneratedRoutesFile")
            /\ UNCHANGED fs
       ELSE /\ pc' = "check"
            /\ UNCHANGED outcome
            /\ IF ExistsFile(OverridePath(config))
               THEN /\ fs' = WriteFile(OverridePath(config), Placeholder)
                    /\ log' = log \o <<"overridePreviouslyGeneratedRoutesFile",
                                       "write placeholder">>
               ELSE /\ UNCHANGED fs
                    /\ log' = Append(log,
                                     "overridePreviouslyGeneratedRoutesFile")

\* whether the program at config.tsConfigPath can load: never without a
\* locator, otherwise it depends on the program
CanLoad(c) ==
    IF IsString(Get(c, "tsConfigPath")) THEN {TRUE, FALSE} ELSE {FALSE}

\* line 90 with the check left unconditional
ChecksAlways(c) == TRUE

\* line 90: if (config.checkProgramForErrors)
ChecksProgram(c) == Truthy(Get(c, "checkProgramForErrors"))

\* lines 88-92: checkProgramForErrors, when the config asks for it
CheckProgram ==
    /\ pc = "check"
    /\ UNCHANGED <<args, config, fs, fs0, dirs, dirs0, routes, reported,
                   conflictStage>>
    /\ IF ChecksProgram(config)
       THEN /\ log' = Append(log, "checkProgramForErrors")
            /\ \E loads \in CanLoad(config), clean \in BOOLEAN :
                  IF ~loads THEN Throw("ProgramLoadError")
                  ELSE IF ~clean THEN Throw("CompileDiagnosticError")
                  ELSE pc' = "getRoutes" /\ UNCHANGED outcome
       ELSE pc' = "getRoutes" /\ UNCHANGED <<outcome, log>>

\* line 94: getRoutes
GetRoutes ==
    /\ pc = "getRoutes"
    /\ log' = Append(log, "getRoutes")
    /\ UNCHANGED <<args, config, fs, fs0, dirs, dirs0>>
    /\ \E loads \in CanLoad(config), decls \in Programs, stage \in Stages :
          IF ~loads
          THEN Throw("ProgramLoadError")
               /\ UNCHANGED <<routes, reported, conflictStage>>
          ELSE IF HasConflict(Extract(decls)) /\ stage = "extract"
          THEN Throw("RouteConflictError")
               /\ UNCHANGED <<routes, reported, conflictStage>>
          ELSE /\ routes' = Extract(decls)
               /\ reported' = Sites(decls, FALSE)
               /\ conflictStage' =
                     IF HasConflict(Extract(decls)) THEN stage ELSE "none"
               /\ pc' = "genDoc"
               /\ UNCHANGED outcome

\* line 96 without the `?? true`
EmitsWhenTruthy(c) == Truthy(Get(c, "generateOpenApiSchema"))

\* line 96: if (config.generateOpenApiSchema ?? true)
EmitsDocument(c) == Truthy(Nullish(Get(c, "generateOpenApiSchema"), "true"))

\* lines 96-98 and _generateOpenApiDocument
GenerateOpenApiDocument ==
    /\ pc = "genDoc"
    /\ UNCHANGED <<args, config, fs0, dirs0, routes, reported, conflictStage>>
    /\ IF ~EmitsDocument(config)
       THEN pc' = "genRoutes" /\ UNCHANGED <<outcome, log, fs, dirs>>
       ELSE IF ~IsString(Get(config, "schemaOutputDir"))
               \/ ~IsString(Get(config, "schemaOutputFileName"))
       THEN /\ Throw("TypeError")
            /\ log' = Append(log, "_generateOpenApiDocument")
            /\ UNCHANGED <<fs, dirs>>
       ELSE \E fails \in BOOLEAN :
              IF conflictStage = "assemble"
              THEN /\ Throw("RouteConflictError")
                   /\ log' = log \o <<"_generateOpenApiDocument",
                                      "generateOpenApiDocument">>
                   /\ UNCHANGED <<fs, dirs>>
              ELSE IF fails /\ routes # <<>>
              THEN /\ Throw("AssemblyError")
                   /\ log' = log \o <<"_generateOpenApiDocument",
                                      "generateOpenApiDocument">>
                   /\ UNCHANGED <<fs, dirs>>
              ELSE /\ dirs' = Mkdir(Dirname(SchemaOutputPath(config)))
                   /\ fs' = WriteFile(SchemaOutputPath(config),
                                      generateOpenApiDocument(routes))
                   /\ log' = log \o <<"_generateOpenApiDocument",
                                      "generateOpenApiDocument",
                                      "write document">>
                   /\ pc' = "genRoutes"
                   /\ UNCHANGED outcome

\* line 100 and _generateRoutes; the function then returns
GenerateRoutes ==
    /\ pc = "genRoutes"
    /\ UNCHANGED <<args, config, fs0, dirs0, routes, reported, conflictStage>>
    /\ IF ~IsString(Get(config, "routesOutputFileName"))
       THEN /\ Throw("TypeError")
            /\ log' = Append(log, "_generateRoutes")
            /\ UNCHANGED <<fs, dirs>>
       ELSE \E fails \in BOOLEAN :
              IF conflictStage = "generate"
              THEN /\ Throw("RouteConflictError")
                   /\ log' = log \o <<"_generateRoutes", "generateRoutes">>
                   /\ UNCHANGED <<fs, dirs>>
              ELSE IF fails /\ routes # <<>>
              THEN /\ Throw("GenerationError")
                   /\ log' = log \o <<"_generateRoutes", "generateRoutes">>
                   /\ UNCHANGED <<fs, dirs>>
              ELSE /\ dirs' = Mkdir(RoutesOutputDir(config))
                   /\ fs' = WriteFile(RoutesOutputPath(config),
                                      generateRoutes(routes))
                   /\ log' = log \o <<"_generateRoutes", "generateRoutes",
                                      "write routes">>
                   /\ pc' = "done"
                   /\ outcome' = "returned"

Next ==
    \/ LoadConfig
    \/ MergeValidate
    \/ Override
    \/ CheckProgram
    \/ GetRoutes
    \/ GenerateOpenApiDocument
    \/ GenerateRoutes

Spec == Init /\ [][Next]_vars

----------------------------------------------------------------------------
\* Properties

Range(q) == {q[i] : i \in DOMAIN q}

\* the event e is in the log, and before position i
LoggedBefore(e, i) == \E j \in DOMAIN log : j < i /\ log[j] = e

Logged(e) == e \in Range(log)

\* config has been merged with the defaults and has passed validation
Merged == pc \notin {"load", "merge"} /\ Logged("overridePreviouslyGeneratedRoutesFile")

\* overridePreviouslyGeneratedRoutesFile has returned
OverrideReturned ==
    Merged /\ ~(outcome = "TypeError" /\ Len(log) = 1)

\* getRoutes has returned, so the run has reached generation
ReachedGeneration ==
    \/ pc \in {"genDoc", "genRoutes"}
    \/ pc = "done" /\ Logged("getRoutes") /\ log[Len(log)] # "getRoutes"

FatalErrors == {"ProgramLoadError", "CompileDiagnosticError",
                "RouteConflictError", "AssemblyError", "GenerationError"}

ConfigErrors == {"Config file does not exist",
                 "Config needs to be a regular file", "Invalid config file"}

OutputWrites == {"write document", "write routes"}

\* C1: with document emission enabled, generateOpenApiDocument and
\* generateRoutes have both been computed before either output file is
\* written, and a finished run has written both output files or neither.
C1_ComputeBothThenWrite ==
    (Merged /\ EmitsDocument(config)) =>
        /\ \A i \in DOMAIN log :
              log[i] \in OutputWrites =>
                  /\ LoggedBefore("generateOpenApiDocument", i)
                  /\ LoggedBefore("generateRoutes", i)
        /\ pc = "done" => (Logged("write document") <=> Logged("write routes"))

\* C2: a run that ends with a fatal error has written no output file, the
\* placeholder included: the file system is as it was before the run.
C2_FatalErrorWritesNothing ==
    outcome \in FatalErrors => fs = fs0 /\ ~Logged("write placeholder")

\* C3: a routes file that exists at the configured routes output path is
\* overwritten with the placeholder before diagnostics checking, extraction
\* and generation; when none exists the placeholder step writes nothing.
C3_PlaceholderFirst ==
    OverrideReturned =>
        LET loc == Resolve(OverridePath(config)) IN
        IF fs0[loc] # NoFile
        THEN /\ Len(log) >= 2 /\ log[2] = "write placeholder"
             /\ \A i \in DOMAIN log :
                   log[i] \in {"checkProgramForErrors", "getRoutes",
                               "generateOpenApiDocument", "generateRoutes"}
                       => i > 2
             /\ pc = "check" => fs = [fs0 EXCEPT ![loc] = Placeholder]
        ELSE /\ ~Logged("write placeholder")
             /\ pc = "check" => fs = fs0 /\ dirs = dirs0

\* C3 witness: an existing routes file holds the placeholder when
\* diagnostics checking is about to start.
C3_Witness ==
    /\ pc = "check"
    /\ fs0[Resolve(OverridePath(config))] = OldFile
    /\ fs[Resolve(OverridePath(config))] = Placeholder

\* diagnostics checking is enabled in the merged config
CheckEnabled == Get(config, "checkProgramForErrors") = "true"

\* checkProgramForErrors reported an error
CheckFailed ==
    /\ pc = "done" /\ outcome \in {"ProgramLoadError", "CompileDiagnosticError"}
    /\ log[Len(log)] = "checkProgramForErrors"

\* C4: with diagnostics checking enabled checkProgramForErrors runs before
\* getRoutes, and when it reports an error getRoutes and both generators are
\* never invoked and neither output is written; with it disabled
\* checkProgramForErrors is never invoked and extraction proceeds.
C4_DiagnosticsGate ==
    OverrideReturned =>
        /\ CheckEnabled =>
              /\ \A i \in DOMAIN log :
                    log[i] = "getRoutes" =>
                        LoggedBefore("checkProgramForErrors", i)
              /\ pc # "check" => Logged("checkProgramForErrors")
              /\ CheckFailed =>
                    /\ ~Logged("getRoutes")
                    /\ ~Logged("generateOpenApiDocument")
                    /\ ~Logged("generateRoutes")
                    /\ ~Logged("write document") /\ ~Logged("write routes")
                    /\ \A l \in Locations :
                          fs[l].kind \notin {"openapi", "routes"}
        /\ ~CheckEnabled =>
              /\ ~Logged("checkProgramForErrors")
              /\ pc \notin {"check", "getRoutes"} => Logged("getRoutes")

\* C4 witness: checking was enabled, reported an error, and ended the run.
C4_Witness ==
    CheckEnabled /\ CheckFailed /\ outcome = "CompileDiagnosticError"

\* C5: a run that ends with a route conflict has not written the contract
\* document, whichever stage detected the conflict.
C5_ConflictWritesNoDocument ==
    outcome = "RouteConflictError" =>
        /\ ~Logged("write document")
        /\ \A l \in Locations : fs[l].kind # "openapi"

\* C6: when some but not all declared routes have an unresolvable type and
\* nothing else fails, both files are written with exactly the resolvable
\* routes, every excluded route is reported, and the outcome is a failure.
C6_PartialFailureOutcome ==
    (/\ pc = "done"
     /\ reported # {} /\ routes # <<>>
     /\ EmitsDocument(config)
     /\ outcome \notin FatalErrors \cup {"TypeError"}) =>
        /\ Logged("write document") /\ Logged("write routes")
        /\ fs[Resolve(RoutesOutputPath(config))].body = routes
        /\ outcome # "returned"

\* the contract document toggle is off in the merged config
ToggleOff == Get(config, "generateOpenApiSchema") = "false"

\* the contract document path is one of the two routes paths
SchemaPathIsRoutesPath ==
    Resolve(SchemaOutputPath(config)) \in
        {Resolve(OverridePath(config)), Resolve(RoutesOutputPath(config))}

\* C7 as stated, for runs in which path.join does not throw: the document
\* is written if and only if the run reaches generation with the toggle not
\* false, the routes file is written in every run that reaches generation,
\* and with the toggle off the document path keeps its content.
C7_WrittenIffReachedAndEnabled ==
    (pc = "done" /\ OverrideReturned /\ outcome # "TypeError") =>
        /\ Logged("write document") <=> (ReachedGeneration /\ ~ToggleOff)
        /\ ReachedGeneration => Logged("write routes")
        /\ (ToggleOff /\ IsString(Get(config, "schemaOutputDir"))) =>
              fs[Resolve(SchemaOutputPath(config))]
                  = fs0[Resolve(SchemaOutputPath(config))]

\* _generateOpenApiDocument was skipped or has returned
PastDocumentStep == pc = "genRoutes" \/ Logged("_generateRoutes")

\* C7 amended: the document is written only after getRoutes has returned
\* and only with the toggle not false (true, absent and undefined enable
\* it), and in every such run whose document step returns; the routes file
\* is written in every run that returns, whatever the toggle; with the
\* toggle off generateOpenApiDocument is never invoked, no document is
\* written, and the document path keeps its content unless it is also the
\* routes path.
C7_DocumentToggle ==
    OverrideReturned =>
        /\ \A i \in DOMAIN log :
              log[i] = "write document" =>
                  ~ToggleOff /\ LoggedBefore("getRoutes", i)
        /\ (PastDocumentStep /\ ~ToggleOff) =>
              /\ Logged("write document")
              /\ pc = "genRoutes" =>
                    fs[Resolve(SchemaOutputPath(config))]
                        = generateOpenApiDocument(routes)
        /\ outcome = "returned" =>
              /\ Logged("write routes")
              /\ fs[Resolve(RoutesOutputPath(config))] = generateRoutes(routes)
        /\ ToggleOff =>
              /\ ~Logged("generateOpenApiDocument")
              /\ ~Logged("write document")
              /\ \A l \in Locations : fs[l].kind # "openapi"
              /\ (IsString(Get(config, "schemaOutputDir"))
                    /\ ~SchemaPathIsRoutesPath) =>
                    fs[Resolve(SchemaOutputPath(config))]
                        = fs0[Resolve(SchemaOutputPath(config))]

\* C7 witness: a run with the toggle left undefined wrote the document, and
\* a returned run wrote the routes file.
C7_Witness ==
    /\ outcome = "returned"
    /\ Get(config, "generateOpenApiSchema") = UNDEFINED
    /\ Logged("write document") /\ Logged("write routes")
    /\ routes # <<>>

\* C8: a missing or non-regular default config file, or a merged config
\* that fails validation, ends the run with an error before the placeholder
\* step, before program analysis and before any write.
C8_ConfigErrorsComeFirst ==
    /\ outcome \in ConfigErrors =>
          /\ log = <<>>
          /\ fs = fs0 /\ dirs = dirs0
    /\ (pc \notin {"load", "merge"} /\ ~Validate(config)) =>
          /\ pc = "done"
          /\ outcome \in ConfigErrors \cup {"SyntaxError"}
    /\ (pc = "done" /\ args = <<>> /\ config = NoConfig) =>
          outcome \in ConfigErrors \cup {"SyntaxError"}

\* C8 witness: a caller's config failed validation on a file system that
\* holds an earlier routes file.
C8_Witness ==
    /\ outcome = "Invalid config file"
    /\ args # <<>>
    /\ fs0[<<GeneratedDir, "routes.ts">>] = OldFile

\* C9: after merging, an option the caller left absent or undefined has its
\* default, an option the caller gave keeps the caller's value, and
\* diagnostics checking runs unless the caller set it to false.
C9_Defaulted ==
    (args # <<>> /\ Merged) =>
        /\ \A k \in OptionKeys \ {"openapi"} :
              IF args[1][k] \in {ABSENT, UNDEFINED}
              THEN config[k] = defaultConfig[k]
              ELSE config[k] = args[1][k]
        /\ (OverrideReturned /\ pc # "check"
              /\ args[1]["checkProgramForErrors"] # "false") =>
              Logged("checkProgramForErrors")

\* C10: the path the placeholder step checks is the path the generated
\* routes file is written to.
C10_SameRoutesPath ==
    Logged("write routes") =>
        /\ Resolve(OverridePath(config)) = Resolve(RoutesOutputPath(config))
        /\ fs[Resolve(OverridePath(config))] = generateRoutes(routes)

====
